---- MODULE Spec2Model ----
(***************************************************************************)
(* Model of backend/main_v2.py: the FastAPI backend of MobileSpectro.      *)
(*                                                                         *)
(* The shared AppState (app_state, ui_state_text, latest_frame_jpeg,       *)
(* scan_history, current_scan_data) is guarded by the one threading.Lock   *)
(* app_lock.  Every request handler is a small process run by one of the   *)
(* Workers: it is begun (and, when its first statement is `with app_lock`, *)
(* acquires the lock in the same step), runs its critical section in one   *)
(* step, ending with the release of the lock, and finally hands its        *)
(* response to the client, after which the background tasks it added run.  *)
(***************************************************************************)
EXTENDS Integers, Sequences, FiniteSets, TLC

VARIABLES
    app_state,          \* state.app_state
    ui_state_text,      \* state.ui_state_text
    latest_frame_jpeg,  \* state.latest_frame_jpeg
    scan_history,       \* state.scan_history
    current_scan_data,  \* state.current_scan_data
    app_lock,           \* the worker holding app_lock, or None
    records,            \* the files of RECORDS_DIR: second of the name -> content
    now,                \* the wall clock read by datetime.now(), in ticks
    pc,                 \* per worker: position of the handler it runs
    req,                \* per worker: the request it serves
    resp,               \* per worker: the response (or HTTPException) produced
    bg,                 \* per worker: tasks added to its BackgroundTasks
    pending,            \* background tasks whose response has been sent
    accepted,           \* the last frame POST /frame answered "ok" for, or None
    script,             \* per worker: the requests its client has still to send
    filename,           \* per worker: the local `filename` of save_result
    saved               \* the (identifier, payload) pairs POST /save-result answered "saved" for

vars == <<app_state, ui_state_text, latest_frame_jpeg, scan_history,
          current_scan_data, app_lock, records, now, pc, req, resp, bg,
          pending, accepted, script, filename, saved>>

shared == <<app_state, ui_state_text, latest_frame_jpeg, scan_history,
            current_scan_data>>

----------------------------------------------------------------------------
(* Bounds of the model *)

NumWorkers == 2
MaxClock == 1
MaxHistory == 2
MaxPending == 1
MaxHistoryDeep == 21

(* Program constants *)

HISTORY_VIEW == 20
TicksPerSecond == 2

Workers == 1..NumWorkers

----------------------------------------------------------------------------
(* Python values.  Every value is a record with a `type` field, so that    *)
(* any two values can be compared.                                         *)

None == [type |-> "NoneType"]

Bytes(data) == [type |-> "bytes", data |-> data]

\* app_lock as held by worker w
Held(w) == [type |-> "Lock", owner |-> w]

\* len(contents)
PyLen(b) == Len(b.data)

\* Python truth value of an Optional[bytes] / Optional[dict]:
\* None and b"" are false, a dict with keys is true.
Truthy(v) ==
    /\ v # None
    /\ (v.type = "bytes" => v.data # <<>>)

\* datetime.now().isoformat(): microsecond resolution, one string per tick
Isoformat(t) == [type |-> "str", iso |-> t]

\* datetime.now().strftime('%Y%m%d_%H%M%S'): one-second resolution
Strftime(t) == t \div TicksPerSecond

\* f"{RECORDS_DIR}/scan_{datetime.now().strftime('%Y%m%d_%H%M%S')}.json"
Filename(t) ==
    [type |-> "str", dir |-> "records", stem |-> <<"scan_", Strftime(t)>>,
     ext |-> ".json"]

\* json.dump(value, f, indent=2): the text of a complete document
JsonDump(value) == [type |-> "file", text |-> <<"json", value>>]

\* a file opened with 'w' and left before json.dump wrote to it
EmptyFile == [type |-> "file", text |-> <<>>]

\* json.load(f): the value of a complete document, JSONDecodeError otherwise
JsonLoad(file) ==
    IF file.text # <<>> /\ file.text[1] = "json"
    THEN file.text[2]
    ELSE [type |-> "JSONDecodeError"]

\* with open(filename, 'w') as f: json.dump(value, f, indent=2)
\* The outcomes: the document is written over whatever the file held; open
\* raises OSError and the file is as it was; the write raises OSError after
\* open has truncated the file.
WriteOutcomes == {"written", "open failed", "dump failed"}

FileAfter(old, value, outcome) ==
    IF outcome = "written" THEN JsonDump(value)
    ELSE IF outcome = "dump failed" THEN EmptyFile
    ELSE old

\* the dict literal of the start-scan branch
NewSession(t) ==
    [type |-> "dict", timestamp |-> Isoformat(t), frames |-> <<>>, analysis |-> None]

\* cv2.imdecode(np.frombuffer(contents, np.uint8), cv2.IMREAD_COLOR):
\* an image for a buffer that starts with the JPEG start-of-image marker,
\* None for other bytes, and a cv2.error for an empty buffer.
ImDecode(b) ==
    IF b.data = <<>> THEN "cv2.error"
    ELSE IF Len(b.data) >= 2 /\ b.data[1] = 255 /\ b.data[2] = 216 THEN "image"
    ELSE "None"

\* a bug Last20 could have: scan_history[:20], the oldest entries
Last20_Oldest(h) ==
    SubSeq(h, 1, IF Len(h) < HISTORY_VIEW THEN Len(h) ELSE HISTORY_VIEW)

\* state.scan_history[-20:]
Last20(h) ==
    LET start == IF Len(h) - HISTORY_VIEW > 0 THEN Len(h) - HISTORY_VIEW ELSE 0
    IN  SubSeq(h, start + 1, Len(h))

----------------------------------------------------------------------------
(* Responses *)

Ok(body) == [code |-> 200, body |-> body]

\* raise HTTPException(status_code=code, detail=detail)
HTTPException(code, detail) == [code |-> code, detail |-> detail]

\* except Exception as e: raise HTTPException(status_code=500, detail=str(e))
Wrap500(e) == HTTPException(500, <<"str", e>>)

----------------------------------------------------------------------------
(* Requests *)

ActionNames == {"start-scan", "stop-scan", "proceed-to-scan", "pause-scan", "reset"}

FramePayloads ==
    { Bytes(<<>>), Bytes(<<7>>), Bytes(<<255, 216>>), Bytes(<<255, 216, 9>>) }

ActionRequests == { [kind |-> "action", action |-> a] : a \in ActionNames }
FrameRequests == { [kind |-> "frame", contents |-> b] : b \in FramePayloads }

\* a key a dict does not hold
Absent == [type |-> "absent"]

\* the dict {}
EmptyDict == [type |-> "dict", v0 |-> Absent, r_squared |-> Absent]

\* a JSON number
Number(n) == [type |-> "number", value |-> n]

\* bodies of POST /save-result: a result with its analysis, the dict {},
\* and a result whose "analysis" is null
ResultPayloads ==
    { [type |-> "dict",
       analysis |-> [type |-> "dict", v0 |-> Number(3), r_squared |-> Number(1)]],
      [type |-> "dict", analysis |-> Absent],
      [type |-> "dict", analysis |-> None] }

\* the {scan_id} of GET /records/{scan_id}: the stems save names its files
\* by, and one it never uses
ScanIds ==
    { [type |-> "str", stem |-> <<"scan_", n>>] : n \in 0..Strftime(MaxClock + 1) }
        \cup { [type |-> "str", stem |-> <<"latest", 0>>] }

SaveRequests == { [kind |-> "save-result", result_data |-> d] : d \in ResultPayloads }
RecordRequests == { [kind |-> "record", scan_id |-> i] : i \in ScanIds }

\* handlers whose body is one `with app_lock:` block
LockFirst(r) == r.kind \in {"action", "frame", "status", "latest-frame", "history"}

----------------------------------------------------------------------------
InitWith(scripts) ==
    /\ app_state = "IDLE"
    /\ ui_state_text = "State: IDLE"
    /\ latest_frame_jpeg = None
    /\ scan_history = <<>>
    /\ current_scan_data = None
    /\ app_lock = None
    /\ records = [s \in 0..Strftime(MaxClock + 1) |-> None]
    /\ now = 0
    /\ pc = [w \in Workers |-> "idle"]
    /\ req = [w \in Workers |-> None]
    /\ resp = [w \in Workers |-> None]
    /\ bg = [w \in Workers |-> <<>>]
    /\ pending = <<>>
    /\ accepted = None
    /\ script = scripts
    /\ filename = [w \in Workers |-> None]
    /\ saved = {}

\* The state after `state = AppState()`; the clients send what they like.
Init == InitWith([w \in Workers |-> <<>>])

----------------------------------------------------------------------------
\* The clock advances.
Tick ==
    /\ now' = now + 1
    /\ UNCHANGED <<shared, app_lock, records, pc, req, resp, bg, pending,
                   accepted, script, filename, saved>>

\* a bug Serve could have: the critical section is entered without waiting
\* for the lock to be free
Serve_NoWait(w, r) ==
    /\ pc[w] = "idle"
    /\ IF LockFirst(r)
       THEN /\ app_lock' = Held(w)
            /\ pc' = [pc EXCEPT ![w] = "locked"]
       ELSE /\ app_lock' = app_lock
            /\ pc' = [pc EXCEPT ![w] = "running"]
    /\ req' = [req EXCEPT ![w] = r]
    /\ resp' = [resp EXCEPT ![w] = None]
    /\ UNCHANGED <<shared, records, now, bg, pending, accepted, filename, saved>>

\* Worker w starts serving request r.  A handler whose body is one
\* `with app_lock:` block enters it when the lock is free; the others
\* (save_result, get_scan_record, health_check) start without the lock.
Serve(w, r) ==
    /\ pc[w] = "idle"
    /\ IF LockFirst(r)
       THEN /\ app_lock = None
            /\ app_lock' = Held(w)
            /\ pc' = [pc EXCEPT ![w] = "locked"]
       ELSE /\ app_lock' = app_lock
            /\ pc' = [pc EXCEPT ![w] = "running"]
    /\ req' = [req EXCEPT ![w] = r]
    /\ resp' = [resp EXCEPT ![w] = None]
    /\ UNCHANGED <<shared, records, now, bg, pending, accepted, filename, saved>>

\* a request of a client that follows no script
Begin(w, r) ==
    /\ script[w] = <<>>
    /\ Serve(w, r)
    /\ UNCHANGED script

\* the next request of a client that follows a script
BeginScripted(w) ==
    /\ script[w] # <<>>
    /\ Serve(w, Head(script[w]))
    /\ script' = [script EXCEPT ![w] = Tail(script[w])]

\* a bug Leave could have: the handler is left with the lock still held
Leave_Holding(w, r) ==
    /\ app_lock' = app_lock
    /\ pc' = [pc EXCEPT ![w] = "done"]
    /\ resp' = [resp EXCEPT ![w] = r]

\* The end of a `with app_lock:` block that is the whole handler: the lock
\* is released and the handler is left with response r.
Leave(w, r) ==
    /\ app_lock' = None
    /\ pc' = [pc EXCEPT ![w] = "done"]
    /\ resp' = [resp EXCEPT ![w] = r]

\* GET /status
get_status(w) ==
    /\ pc[w] = "locked" /\ app_lock = Held(w) /\ req[w].kind = "status"
    /\ Leave(w, Ok([app_state |-> app_state, ui_state_text |-> ui_state_text,
                    active_profile_name |-> "Mobile Spectrometry",
                    latest_frame_jpeg |-> None]))
    /\ UNCHANGED <<shared, records, now, req, bg, pending, accepted, script,
                   filename, saved>>

\* GET /latest-frame
get_latest_frame(w) ==
    /\ pc[w] = "locked" /\ app_lock = Held(w) /\ req[w].kind = "latest-frame"
    /\ IF ~Truthy(latest_frame_jpeg)
       THEN Leave(w, HTTPException(404, <<"No frame available">>))
       ELSE Leave(w, Ok([data |-> latest_frame_jpeg]))
    /\ UNCHANGED <<shared, records, now, req, bg, pending, accepted, script,
                   filename, saved>>

\* the frame POST /frame leaves in state.latest_frame_jpeg: the assignment
\* comes before the decoding, so it is the upload whatever the decoder says
StoredFrame(old, contents, frame_bgr) == contents

\* POST /frame: the frame is stored, then decoded for verification
receive_frame(w) ==
    /\ pc[w] = "locked" /\ app_lock = Held(w) /\ req[w].kind = "frame"
    /\ LET contents == req[w].contents
           frame_bgr == ImDecode(contents)
       IN  /\ latest_frame_jpeg' = StoredFrame(latest_frame_jpeg, contents, frame_bgr)
           /\ IF frame_bgr = "cv2.error"
              THEN /\ Leave(w, Wrap500(<<"cv2.error">>))
                   /\ UNCHANGED accepted
              ELSE IF frame_bgr = "None"
              THEN /\ Leave(w, Wrap500(HTTPException(400, <<"Invalid JPEG">>)))
                   /\ UNCHANGED accepted
              ELSE /\ Leave(w, Ok([status |-> "ok", frame_size |-> PyLen(contents)]))
                   /\ accepted' = contents
    /\ UNCHANGED <<app_state, ui_state_text, scan_history, current_scan_data,
                   records, now, req, bg, pending, script, filename, saved>>

\* The branches of handle_action: what each does to
\* (app_state, ui_state_text, current_scan_data, scan_history), the tasks it
\* adds to background_tasks, and what it returns or raises.
StartScan(t) ==
    [app_state |-> "BLANKING_COUNTDOWN",
     ui_state_text |-> "State: BLANKING_COUNTDOWN",
     current_scan_data |-> NewSession(t),
     scan_history |-> scan_history,
     tasks |-> <<>>,
     result |-> Ok([status |-> "scan_started"])]

\* a bug StopScan could have: the Session is archived and saved without the
\* test that there is one
StopScan_Unguarded ==
    [app_state |-> "IDLE",
     ui_state_text |-> "State: IDLE",
     current_scan_data |-> None,
     scan_history |-> Append(scan_history, current_scan_data),
     tasks |-> <<current_scan_data>>,
     result |-> Ok([status |-> "scan_stopped"])]

\* a bug StopScan could have: the Session is archived but its save is never
\* added to the background tasks
StopScan_NoSave ==
    [app_state |-> "IDLE",
     ui_state_text |-> "State: IDLE",
     current_scan_data |-> None,
     scan_history |-> IF Truthy(current_scan_data)
                      THEN Append(scan_history, current_scan_data)
                      ELSE scan_history,
     tasks |-> <<>>,
     result |-> Ok([status |-> "scan_stopped"])]

\* a bug StopScan could have: every racer's stop-scan archives a Session,
\* the one it stops or else the last one archived
StopScan_Rearchives ==
    [app_state |-> "IDLE",
     ui_state_text |-> "State: IDLE",
     current_scan_data |-> None,
     scan_history |-> IF Truthy(current_scan_data)
                      THEN Append(scan_history, current_scan_data)
                      ELSE IF scan_history # <<>>
                      THEN Append(scan_history, scan_history[Len(scan_history)])
                      ELSE scan_history,
     tasks |-> IF Truthy(current_scan_data) THEN <<current_scan_data>> ELSE <<>>,
     result |-> Ok([status |-> "scan_stopped"])]

\* a bug StopScan could have: the history keeps only the scan just stopped
StopScan_Rewrites ==
    [app_state |-> "IDLE",
     ui_state_text |-> "State: IDLE",
     current_scan_data |-> None,
     scan_history |-> IF Truthy(current_scan_data)
                      THEN <<current_scan_data>>
                      ELSE scan_history,
     tasks |-> IF Truthy(current_scan_data) THEN <<current_scan_data>> ELSE <<>>,
     result |-> Ok([status |-> "scan_stopped"])]

StopScan ==
    [app_state |-> "IDLE",
     ui_state_text |-> "State: IDLE",
     current_scan_data |-> None,
     scan_history |-> IF Truthy(current_scan_data)
                      THEN Append(scan_history, current_scan_data)
                      ELSE scan_history,
     tasks |-> IF Truthy(current_scan_data) THEN <<current_scan_data>> ELSE <<>>,
     result |-> Ok([status |-> "scan_stopped"])]

\* a bug ProceedToScan could have: the Session is reset on the way
ProceedToScan_Resets ==
    [app_state |-> "SCANNING",
     ui_state_text |-> "State: SCANNING",
     current_scan_data |-> IF current_scan_data = None THEN None ELSE NewSession(now),
     scan_history |-> scan_history,
     tasks |-> <<>>,
     result |-> Ok([status |-> "proceeding_to_scan"])]

\* a bug ProceedToScan could have: the label is left as it was
ProceedToScan_StaleLabel ==
    [app_state |-> "SCANNING",
     ui_state_text |-> ui_state_text,
     current_scan_data |-> current_scan_data,
     scan_history |-> scan_history,
     tasks |-> <<>>,
     result |-> Ok([status |-> "proceeding_to_scan"])]

ProceedToScan ==
    [app_state |-> "SCANNING",
     ui_state_text |-> "State: SCANNING",
     current_scan_data |-> current_scan_data,
     scan_history |-> scan_history,
     tasks |-> <<>>,
     result |-> Ok([status |-> "proceeding_to_scan"])]

\* a bug UnknownAction could have: the name is refused only after the state
\* was reset
UnknownAction_Resets(action) ==
    [app_state |-> "IDLE",
     ui_state_text |-> "State: IDLE",
     current_scan_data |-> None,
     scan_history |-> scan_history,
     tasks |-> <<>>,
     result |-> HTTPException(400, <<"Unknown action: ", action>>)]

UnknownAction(action) ==
    [app_state |-> app_state,
     ui_state_text |-> ui_state_text,
     current_scan_data |-> current_scan_data,
     scan_history |-> scan_history,
     tasks |-> <<>>,
     result |-> HTTPException(400, <<"Unknown action: ", action>>)]

\* d.get(key) for the two keys read of an analysis: the value, or None
Get(value) == IF value = Absent THEN None ELSE value

\* the dict literal save_result appends to scan_history; the two chained
\* .get calls raise AttributeError when "analysis" holds no dict
SummaryEntry(result_data, fname, t) ==
    LET analysis == IF result_data.analysis = Absent
                    THEN EmptyDict
                    ELSE result_data.analysis
    IN  IF analysis.type # "dict"
        THEN [type |-> "AttributeError"]
        ELSE [type |-> "dict", timestamp |-> Isoformat(t), filename |-> fname,
              v0 |-> Get(analysis.v0), r_squared |-> Get(analysis.r_squared)]

\* the file RECORDS_DIR/{stem}.json, None when there is none
FileAt(stem) ==
    IF stem[1] = "scan_" /\ stem[2] \in DOMAIN records
    THEN records[stem[2]]
    ELSE None

\* The return (or raise) of a handler that holds no lock.
Finish(w, r) ==
    /\ pc' = [pc EXCEPT ![w] = "done"]
    /\ resp' = [resp EXCEPT ![w] = r]
    /\ UNCHANGED app_lock

\* a bug WriteRaises could have: a failed write goes unnoticed
WriteRaises_Never(outcome) == FALSE

\* whether `with open(...) ... json.dump(...)` raised
WriteRaises(outcome) == outcome # "written"

\* POST /save-result, first part: the file is named and written
save_result_write(w) ==
    /\ pc[w] = "running" /\ req[w].kind = "save-result"
    /\ LET fname == Filename(now)
           file == fname.stem[2]
       IN  \E outcome \in WriteOutcomes :
            /\ records' = [records EXCEPT ![file] =
                              FileAfter(records[file], req[w].result_data, outcome)]
            /\ filename' = [filename EXCEPT ![w] = fname]
            /\ IF WriteRaises(outcome)
               THEN Finish(w, Wrap500(<<"OSError">>))
               ELSE /\ pc' = [pc EXCEPT ![w] = "waiting"]
                    /\ UNCHANGED <<resp, app_lock>>
    /\ UNCHANGED <<shared, now, req, bg, pending, accepted, script, saved>>

\* POST /save-result: `with app_lock:` is entered when the lock is free
save_result_lock(w) ==
    /\ pc[w] = "waiting" /\ req[w].kind = "save-result"
    /\ app_lock = None
    /\ app_lock' = Held(w)
    /\ pc' = [pc EXCEPT ![w] = "locked"]
    /\ UNCHANGED <<shared, records, now, req, resp, bg, pending, accepted, script,
                   filename, saved>>

\* POST /save-result, last part: the summary is appended under the lock
save_result_append(w) ==
    /\ pc[w] = "locked" /\ app_lock = Held(w) /\ req[w].kind = "save-result"
    /\ LET entry == SummaryEntry(req[w].result_data, filename[w], now)
       IN  IF entry.type = "AttributeError"
           THEN /\ Leave(w, Wrap500(<<"AttributeError">>))
                /\ UNCHANGED scan_history
           ELSE /\ scan_history' = Append(scan_history, entry)
                /\ Leave(w, Ok([status |-> "saved", filename |-> filename[w]]))
    /\ UNCHANGED <<app_state, ui_state_text, latest_frame_jpeg, current_scan_data,
                   records, now, req, bg, pending, accepted, script, filename, saved>>

\* GET /records/{scan_id}
get_scan_record(w) ==
    /\ pc[w] = "running" /\ req[w].kind = "record"
    /\ LET file == FileAt(req[w].scan_id.stem)
       IN  IF file = None
           THEN Finish(w, Wrap500(HTTPException(404, <<"Scan not found">>)))
           ELSE IF JsonLoad(file).type = "JSONDecodeError"
           THEN Finish(w, Wrap500(<<"JSONDecodeError">>))
           ELSE Finish(w, Ok(JsonLoad(file)))
    /\ UNCHANGED <<shared, records, now, req, bg, pending, accepted, script,
                   filename, saved>>

\* GET /health
health_check(w) ==
    /\ pc[w] = "running" /\ req[w].kind = "health"
    /\ Finish(w, Ok([status |-> "ok", version |-> "2.0",
                     mode |-> "phone-first (calculations on device)",
                     scan_count |-> Len(scan_history)]))
    /\ UNCHANGED <<shared, records, now, req, bg, pending, accepted, script,
                   filename, saved>>

\* POST /action/{action}
handle_action(w) ==
    /\ pc[w] = "locked" /\ app_lock = Held(w) /\ req[w].kind = "action"
    /\ LET action == req[w].action
           branch == IF action = "start-scan" THEN StartScan(now)
                     ELSE IF action = "stop-scan" THEN StopScan
                     ELSE IF action = "proceed-to-scan" THEN ProceedToScan
                     ELSE UnknownAction(action)
       IN  /\ app_state' = branch.app_state
           /\ ui_state_text' = branch.ui_state_text
           /\ current_scan_data' = branch.current_scan_data
           /\ scan_history' = branch.scan_history
           /\ bg' = [bg EXCEPT ![w] = bg[w] \o branch.tasks]
           /\ Leave(w, branch.result)
    /\ UNCHANGED <<latest_frame_jpeg, records, now, req, pending, accepted, script,
                   filename, saved>>

\* GET /history
get_scan_history(w) ==
    /\ pc[w] = "locked" /\ app_lock = Held(w) /\ req[w].kind = "history"
    /\ Leave(w, Ok([count |-> Len(scan_history), scans |-> Last20(scan_history)]))
    /\ UNCHANGED <<shared, records, now, req, bg, pending, accepted, script,
                   filename, saved>>

\* The response is sent; the background tasks of the request are then run
\* in the thread pool.
Respond(w) ==
    /\ pc[w] = "done"
    /\ pc' = [pc EXCEPT ![w] = "idle"]
    /\ req' = [req EXCEPT ![w] = None]
    /\ resp' = [resp EXCEPT ![w] = None]
    /\ pending' = pending \o bg[w]
    /\ bg' = [bg EXCEPT ![w] = <<>>]
    /\ filename' = [filename EXCEPT ![w] = None]
    /\ saved' = IF req[w].kind = "save-result" /\ resp[w].code = 200
                THEN saved \cup {[scan_id |-> resp[w].body.filename.stem,
                                  result_data |-> req[w].result_data]}
                ELSE saved
    /\ UNCHANGED <<shared, app_lock, records, now, accepted, script>>

\* a bug _save_scan_record could have: a save that failed stays among the
\* tasks and is attempted again
_save_scan_record_Retries(i) ==
    /\ i \in 1..Len(pending)
    /\ \E outcome \in WriteOutcomes :
         /\ records' = [records EXCEPT ![Filename(now).stem[2]] =
                           FileAfter(records[Filename(now).stem[2]], pending[i], outcome)]
         /\ pending' = IF outcome = "written"
                       THEN SubSeq(pending, 1, i - 1) \o SubSeq(pending, i + 1, Len(pending))
                       ELSE pending
    /\ UNCHANGED <<shared, app_lock, now, pc, req, resp, bg, accepted, script,
                   filename, saved>>

\* _save_scan_record(scan_data): one attempt, the outcome of the write is
\* the file system's; a failure is printed and swallowed.
_save_scan_record(i) ==
    /\ i \in 1..Len(pending)
    /\ \E outcome \in WriteOutcomes :
         records' = [records EXCEPT ![Filename(now).stem[2]] =
                        FileAfter(records[Filename(now).stem[2]], pending[i], outcome)]
    /\ pending' = SubSeq(pending, 1, i - 1) \o SubSeq(pending, i + 1, Len(pending))
    /\ UNCHANGED <<shared, app_lock, now, pc, req, resp, bg, accepted, script,
                   filename, saved>>

----------------------------------------------------------------------------
\* requests that may add a background task / append to scan_history
IsStop(r) == r.kind = "action" /\ r.action = "stop-scan"
MayAppend(r) == IsStop(r) \/ r.kind = "save-result"

\* requests in flight that may add a background task / append to scan_history
Stoppers == { v \in Workers : req[v] # None /\ IsStop(req[v]) }
Appenders == { v \in Workers : req[v] # None /\ MayAppend(req[v]) }

WithinBounds(r, maxh) ==
    /\ MayAppend(r) => Len(scan_history) + Cardinality(Appenders) < maxh
    /\ IsStop(r) => Len(pending) + Cardinality(Stoppers) < MaxPending

\* The scan controller: the actions, from any number of clients.
NextScan ==
    \/ now < MaxClock /\ Tick
    \/ \E w \in Workers, r \in ActionRequests :
         WithinBounds(r, MaxHistory) /\ Begin(w, r)
    \/ \E w \in Workers : handle_action(w)
    \/ \E w \in Workers : Respond(w)
    \/ \E i \in 1..MaxPending : _save_scan_record(i)

SpecScan == Init /\ [][NextScan]_vars

\* The frame store: uploads, and reads of the latest frame and the status.
ReadRequests == { [kind |-> k] : k \in {"latest-frame", "status"} }

NextFrame ==
    \/ \E w \in Workers, r \in FrameRequests \cup ReadRequests : Begin(w, r)
    \/ \E w \in Workers : receive_frame(w)
    \/ \E w \in Workers : get_latest_frame(w)
    \/ \E w \in Workers : get_status(w)
    \/ \E w \in Workers : Respond(w)

SpecFrame == Init /\ [][NextFrame]_vars

\* The record store: results saved, scans stopped and saved in the
\* background, records read.
StoreRequests ==
    { [kind |-> "action", action |-> a] : a \in {"start-scan", "stop-scan"} }
        \cup SaveRequests \cup RecordRequests

NextStore ==
    \/ now < MaxClock /\ Tick
    \/ \E w \in Workers, r \in StoreRequests :
         WithinBounds(r, MaxHistory) /\ Begin(w, r)
    \/ \E w \in Workers : handle_action(w)
    \/ \E w \in Workers : save_result_write(w)
    \/ \E w \in Workers : save_result_lock(w)
    \/ \E w \in Workers : save_result_append(w)
    \/ \E w \in Workers : get_scan_record(w)
    \/ \E w \in Workers : Respond(w)
    \/ \E i \in 1..MaxPending : _save_scan_record(i)

SpecStore == Init /\ [][NextStore]_vars

\* The results: saved by any number of clients, and the history read.
SaveHistoryRequests == SaveRequests \cup {[kind |-> "history"]}

NextSave ==
    \/ now < MaxClock /\ Tick
    \/ \E w \in Workers, r \in SaveHistoryRequests :
         WithinBounds(r, MaxHistory) /\ Begin(w, r)
    \/ \E w \in Workers : save_result_write(w)
    \/ \E w \in Workers : save_result_lock(w)
    \/ \E w \in Workers : save_result_append(w)
    \/ \E w \in Workers : get_scan_history(w)
    \/ \E w \in Workers : Respond(w)

SpecSave == Init /\ [][NextSave]_vars

\* The lock: every handler that changes the shared state or a record, the
\* reads of the history and of a record, and the background save, from any
\* number of clients, with one request of each kind.
LockRequests ==
    { [kind |-> "action", action |-> a] : a \in {"start-scan", "stop-scan"} }
        \cup { [kind |-> "frame", contents |-> Bytes(<<255, 216>>)] }
        \cup { r \in SaveRequests : r.result_data.analysis = Absent }
        \cup { r \in RecordRequests : r.scan_id.stem = Filename(0).stem }
        \cup { [kind |-> "history"] }

NextLock ==
    \/ \E w \in Workers, r \in LockRequests :
         WithinBounds(r, MaxHistory) /\ Begin(w, r)
    \/ \E w \in Workers : handle_action(w)
    \/ \E w \in Workers : receive_frame(w)
    \/ \E w \in Workers : save_result_write(w)
    \/ \E w \in Workers : save_result_lock(w)
    \/ \E w \in Workers : save_result_append(w)
    \/ \E w \in Workers : get_scan_record(w)
    \/ \E w \in Workers : get_scan_history(w)
    \/ \E w \in Workers : Respond(w)
    \/ \E i \in 1..MaxPending : _save_scan_record(i)

SpecLock == Init /\ [][NextLock]_vars

\* The reads of the shared state, next to a handler that changes it.
HealthRequests ==
    { [kind |-> "action", action |-> a] : a \in {"start-scan", "stop-scan"} }
        \cup { [kind |-> "frame", contents |-> Bytes(<<255, 216>>)] }
        \cup { [kind |-> k] : k \in {"history", "status", "latest-frame", "health"} }

NextHealth ==
    \/ \E w \in Workers, r \in HealthRequests :
         WithinBounds(r, MaxHistory) /\ Begin(w, r)
    \/ \E w \in Workers : handle_action(w)
    \/ \E w \in Workers : receive_frame(w)
    \/ \E w \in Workers : get_scan_history(w)
    \/ \E w \in Workers : get_status(w)
    \/ \E w \in Workers : get_latest_frame(w)
    \/ \E w \in Workers : health_check(w)
    \/ \E w \in Workers : Respond(w)
    \/ \E i \in 1..MaxPending : _save_scan_record(i)

SpecHealth == Init /\ [][NextHealth]_vars

\* One client and a long run: scans started and stopped, the history read.
Solo == CHOOSE w \in Workers : \A v \in Workers : w <= v

DeepRequests ==
    { [kind |-> "action", action |-> a] : a \in {"start-scan", "stop-scan"} }
        \cup {[kind |-> "history"]}

NextDeep ==
    \/ now < MaxClock /\ Tick
    \/ \E r \in DeepRequests : WithinBounds(r, MaxHistoryDeep) /\ Begin(Solo, r)
    \/ handle_action(Solo)
    \/ get_scan_history(Solo)
    \/ Respond(Solo)
    \/ \E i \in 1..MaxPending : _save_scan_record(i)

SpecDeep == Init /\ [][NextDeep]_vars

\* The race: every client sends start-scan, and, once every start-scan has
\* been answered, its matching stop-scan.
RaceScript ==
    << [kind |-> "action", action |-> "start-scan"],
       [kind |-> "action", action |-> "stop-scan"] >>

InitRace == InitWith([w \in Workers |-> RaceScript])

StartsAnswered ==
    \A v \in Workers : Len(script[v]) <= 1 /\ pc[v] = "idle"

NextRace ==
    \/ now < MaxClock /\ Tick
    \/ \E w \in Workers :
         /\ script[w] # <<>>
         /\ Head(script[w]).action = "stop-scan" => StartsAnswered
         /\ BeginScripted(w)
    \/ \E w \in Workers : handle_action(w)
    \/ \E w \in Workers : Respond(w)
    \/ \E i \in 1..MaxPending : _save_scan_record(i)

SpecRace == InitRace /\ [][NextRace]_vars

----------------------------------------------------------------------------
(* The claims *)

\* worker w runs the critical section of handle_action for action a
ActionStep(w, a) ==
    /\ pc[w] = "locked" /\ pc'[w] = "done"
    /\ req[w].kind = "action" /\ req[w].action = a

\* worker w has run handle_action for action a and holds its response
ActionDone(w, a) ==
    /\ pc[w] = "done"
    /\ req[w].kind = "action" /\ req[w].action = a

Recognized == {"start-scan", "stop-scan", "proceed-to-scan"}

\* C1: every action applied to a (state, action) pair of the transition
\* table leaves the state the table predicts: start-scan in IDLE gives
\* BLANKING_COUNTDOWN and a new Session stamped with the current time, with
\* no frames and no analysis; proceed-to-scan in BLANKING_COUNTDOWN gives
\* SCANNING and leaves the Session alone; stop-scan gives IDLE in any state.
C1_TransitionTable ==
    [][\A w \in Workers :
        /\ (ActionStep(w, "start-scan") /\ app_state = "IDLE") =>
              /\ app_state' = "BLANKING_COUNTDOWN"
              /\ current_scan_data' =
                    [type |-> "dict", timestamp |-> [type |-> "str", iso |-> now],
                     frames |-> <<>>, analysis |-> None]
              /\ resp'[w].code = 200
        /\ (ActionStep(w, "proceed-to-scan") /\ app_state = "BLANKING_COUNTDOWN") =>
              /\ app_state' = "SCANNING"
              /\ current_scan_data' = current_scan_data
              /\ resp'[w].code = 200
        /\ ActionStep(w, "stop-scan") =>
              /\ app_state' = "IDLE"
              /\ resp'[w].code = 200
      ]_vars

\* C1 witness: a scan was started at a later tick, then told to proceed
C1_Witness ==
    \E w \in Workers :
        /\ ActionDone(w, "proceed-to-scan")
        /\ app_state = "SCANNING"
        /\ current_scan_data # None
        /\ current_scan_data.timestamp.iso > 0
        /\ scan_history # <<>>

\* C2 (as claimed): start-scan outside IDLE and proceed-to-scan outside
\* BLANKING_COUNTDOWN fail with an error and leave SessionState, the Session
\* and HistoryIndex unchanged.
C2_InvalidPairRejected ==
    [][\A w \in Workers :
        (\/ ActionStep(w, "start-scan") /\ app_state # "IDLE"
         \/ ActionStep(w, "proceed-to-scan") /\ app_state # "BLANKING_COUNTDOWN")
        => /\ resp'[w].code # 200
           /\ UNCHANGED <<app_state, current_scan_data, scan_history>>
      ]_vars

\* C3 (as claimed): a Session exists if and only if SessionState is not IDLE.
C3_SessionIffNotIdle ==
    (current_scan_data # None) <=> (app_state # "IDLE")

\* C4: when the clients race their start-scan requests from IDLE, there is
\* never more than one Session alive or archived; once all are answered one
\* Session is live; each start-scan leaves as the live Session the one it
\* created, so the last to hold the lock wins; the first stop-scan archives
\* that Session, and after all the stop-scan requests HistoryIndex holds
\* exactly one entry.
RaceOver == \A w \in Workers : script[w] = <<>> /\ pc[w] = "idle"

C4_RaceOneSession ==
    /\ [](Len(scan_history) + (IF current_scan_data # None THEN 1 ELSE 0) <= 1)
    /\ []((StartsAnswered /\ \A w \in Workers : script[w] # <<>>)
            => current_scan_data # None /\ scan_history = <<>>)
    /\ [](RaceOver => /\ Len(scan_history) = 1
                      /\ current_scan_data = None
                      /\ app_state = "IDLE")
    /\ [][\A w \in Workers :
            /\ ActionStep(w, "start-scan") =>
                  /\ current_scan_data'.timestamp.iso = now
                  /\ scan_history' = <<>>
            /\ (ActionStep(w, "stop-scan") /\ current_scan_data # None) =>
                  scan_history' = <<current_scan_data>>
         ]_vars

\* C4 witness: the race is over, and the racers' Sessions differed
C4_Witness ==
    /\ RaceOver
    /\ Len(scan_history) = 1
    /\ scan_history[1].timestamp.iso > 0

\* C5: a stop-scan with a Session alive appends that Session, once, to
\* HistoryIndex, adds one background save carrying it, discards it and sets
\* the state to IDLE, all in the one step that holds the lock.
C5_StopArchivesOnce ==
    [][\A w \in Workers :
        (ActionStep(w, "stop-scan") /\ current_scan_data # None) =>
            /\ Len(scan_history') = Len(scan_history) + 1
            /\ SubSeq(scan_history', 1, Len(scan_history)) = scan_history
            /\ scan_history'[Len(scan_history')] = current_scan_data
            /\ Len(bg'[w]) = Len(bg[w]) + 1
            /\ bg'[w][Len(bg'[w])] = current_scan_data
            /\ \A v \in Workers \ {w} : bg'[v] = bg[v]
            /\ pending' = pending
            /\ current_scan_data' = None
            /\ app_state' = "IDLE"
            /\ app_lock = Held(w) /\ app_lock' = None
      ]_vars

\* C5 witness: a second Session has just been stopped
C5_Witness ==
    \E w \in Workers :
        /\ ActionDone(w, "stop-scan")
        /\ Len(bg[w]) = 1
        /\ Len(scan_history) = 2
        /\ scan_history[2] = bg[w][1]
        /\ scan_history[1] # scan_history[2]
        /\ app_state = "IDLE"

\* C6: a stop-scan in state IDLE changes nothing: the state stays IDLE,
\* HistoryIndex is the same, no background save is added, and the request
\* succeeds.
C6_StopWhenIdleNoOp ==
    [][\A w \in Workers :
        (ActionStep(w, "stop-scan") /\ app_state = "IDLE") =>
            /\ app_state' = "IDLE"
            /\ scan_history' = scan_history
            /\ current_scan_data' = current_scan_data
            /\ bg' = bg
            /\ pending' = pending
            /\ resp'[w] = [code |-> 200, body |-> [status |-> "scan_stopped"]]
      ]_vars

\* C6 witness: a stop-scan that found nothing to stop, after an earlier scan
C6_Witness ==
    \E w \in Workers :
        /\ ActionDone(w, "stop-scan")
        /\ bg[w] = <<>>
        /\ resp[w].code = 200
        /\ app_state = "IDLE"
        /\ scan_history # <<>>

\* C7: an action whose name is not start-scan, stop-scan or proceed-to-scan
\* fails with status 400 and a detail that carries the name, and leaves the
\* state, the Session, the FrameBuffer and HistoryIndex unchanged, with no
\* background save added.
C7_UnknownActionRejected ==
    [][\A w \in Workers : \A a \in ActionNames \ Recognized :
        ActionStep(w, a) =>
            /\ resp'[w].code = 400
            /\ resp'[w].detail = <<"Unknown action: ", a>>
            /\ UNCHANGED <<app_state, ui_state_text, current_scan_data,
                           latest_frame_jpeg, scan_history, bg, pending>>
      ]_vars

\* C7 witness: an unknown action was refused while a scan was running
C7_Witness ==
    \E w \in Workers :
        /\ ActionDone(w, "pause-scan")
        /\ resp[w].code = 400
        /\ app_state = "SCANNING"
        /\ current_scan_data # None

\* worker w runs the critical section of get_scan_history
HistoryStep(w) ==
    /\ pc[w] = "locked" /\ pc'[w] = "done"
    /\ req[w].kind = "history"

Min(a, b) == IF a <= b THEN a ELSE b

\* C8: GET /history returns the last min(L, 20) entries of HistoryIndex,
\* oldest first, where L is the number of entries appended so far, and
\* reports L as the count.
C8_HistoryLast20 ==
    [][\A w \in Workers :
        HistoryStep(w) =>
            LET L == Len(scan_history)
                scans == resp'[w].body.scans
                n == Len(scans)
            IN  /\ resp'[w].code = 200
                /\ n = Min(L, 20)
                /\ n <= 20
                /\ \A i \in 1..n : scans[i] = scan_history[L - n + i]
                /\ resp'[w].body.count = L
                /\ scan_history' = scan_history
      ]_vars

\* C8 witness: more than 20 scans were stopped, and the entry that fell out
\* of the view differs from the oldest one in it
C8_Witness ==
    \E w \in Workers :
        /\ pc[w] = "done" /\ req[w].kind = "history"
        /\ Len(scan_history) > 20
        /\ Len(resp[w].body.scans) = 20
        /\ scan_history[1] # scan_history[Len(scan_history) - 19]
        /\ resp[w].body.scans[1] = scan_history[Len(scan_history) - 19]

\* worker w runs the critical section of receive_frame
FrameStep(w) ==
    /\ pc[w] = "locked" /\ pc'[w] = "done"
    /\ req[w].kind = "frame"

\* worker w runs the critical section of get_latest_frame
LatestStep(w) ==
    /\ pc[w] = "locked" /\ pc'[w] = "done"
    /\ req[w].kind = "latest-frame"

\* C9 (as claimed): a POST /frame whose payload does not decode reports an
\* error and leaves the FrameBuffer as it was.
C9_BadFrameLeavesBuffer ==
    [][\A w \in Workers :
        (FrameStep(w) /\ ImDecode(req[w].contents) # "image") =>
            /\ resp'[w].code # 200
            /\ latest_frame_jpeg' = latest_frame_jpeg
      ]_vars

\* C10 (as claimed): a POST /frame with a decodable payload P answers ok
\* with P's size and stores P; GET /latest-frame answers not-found exactly
\* when no frame has been accepted yet, and otherwise returns a frame, which
\* is P when nothing was posted since.
C10_FrameRoundTrip ==
    [][\A w \in Workers :
        /\ (FrameStep(w) /\ ImDecode(req[w].contents) = "image") =>
              /\ resp'[w] = [code |-> 200,
                             body |-> [status |-> "ok",
                                       frame_size |-> Len(req[w].contents.data)]]
              /\ latest_frame_jpeg' = req[w].contents
        /\ LatestStep(w) =>
              /\ (resp'[w].code = 404) <=> (accepted = None)
              /\ (resp'[w].code # 404) => /\ resp'[w].code = 200
                                          /\ resp'[w].body.data = latest_frame_jpeg
      ]_vars

\* worker w runs get_scan_record
RecordStep(w) ==
    /\ pc[w] = "running" /\ pc'[w] = "done"
    /\ req[w].kind = "record"

\* C11 (as claimed): GET /records/{id} for an identifier no record was
\* written under answers 404, not the 500 of a server error or of a record
\* that does not parse, and changes no state.
C11_MissingRecordIs404 ==
    [][\A w \in Workers :
        (RecordStep(w) /\ FileAt(req[w].scan_id.stem) = None) =>
            /\ resp'[w].code = 404
            /\ UNCHANGED <<shared, records, pending, bg>>
      ]_vars

\* C12 (as claimed): once POST /save-result with payload P has answered
\* "saved" with its identifier, GET /records/{id} for that identifier returns
\* exactly P, whatever other save-result and stop-scan requests did meanwhile.
C12_SavedThenRead ==
    [][\A w \in Workers :
        RecordStep(w) =>
            \A s \in saved :
                s.scan_id = req[w].scan_id.stem =>
                    resp'[w] = [code |-> 200, body |-> s.result_data]
      ]_vars

\* C13 (as claimed): a record, once created under an identifier, is never
\* changed or replaced by a later save, also not by one in the same second.
C13_RecordsWriteOnce ==
    [][\A s \in DOMAIN records :
        records[s] # None => records'[s] = records[s]
      ]_vars

\* worker w runs the first part of save_result: the write of the record
SaveWriteStep(w) ==
    /\ pc[w] = "running" /\ pc'[w] # "running"
    /\ req[w].kind = "save-result"

\* worker w runs the critical section of save_result
SaveAppendStep(w) ==
    /\ pc[w] = "locked" /\ pc'[w] = "done"
    /\ req[w].kind = "save-result"

\* the entries of a history that carry a record reference
WithRecord(h) == { i \in 1..Len(h) : "filename" \in DOMAIN h[i] }

\* C14: in POST /save-result the record is written before the summary is
\* appended and before there is a response: every entry of HistoryIndex that
\* carries a record reference, and every such entry GET /history returns,
\* refers to a record that is in storage; a save answered "saved" has its
\* record and its entry; a write that fails is answered with an error, and
\* appends nothing and changes no shared state, then or later.
C14_WriteBeforeAppend ==
    /\ [](\A i \in WithRecord(scan_history) :
            FileAt(scan_history[i].filename.stem) # None)
    /\ [](\A w \in Workers :
            (pc[w] = "done" /\ req[w].kind = "save-result" /\ resp[w].code = 200) =>
                /\ FileAt(resp[w].body.filename.stem) # None
                /\ \E i \in WithRecord(scan_history) :
                     scan_history[i].filename = resp[w].body.filename)
    /\ [][\A w \in Workers :
            /\ SaveWriteStep(w) =>
                  /\ UNCHANGED shared
                  /\ IF pc'[w] = "waiting"
                     THEN /\ resp'[w] = None
                          /\ FileAt(Filename(now).stem)' = JsonDump(req[w].result_data)
                     ELSE /\ pc'[w] = "done" /\ resp'[w].code = 500
                          /\ \/ records' = records
                             \/ FileAt(Filename(now).stem)' = EmptyFile
            /\ SaveAppendStep(w) =>
                  /\ FileAt(filename[w].stem) # None
                  /\ scan_history' # scan_history =>
                        /\ resp'[w].code = 200
                        /\ scan_history'[Len(scan_history')].filename = filename[w]
            /\ HistoryStep(w) =>
                  \A i \in WithRecord(resp'[w].body.scans) :
                      FileAt(resp'[w].body.scans[i].filename.stem) # None
            /\ (pc[w] = "done" /\ req[w].kind = "save-result" /\ pc'[w] # "done") =>
                  UNCHANGED shared
         ]_vars

\* C14 witness: a save has been answered "saved" and is in the history,
\* and another save, whose write failed, holds its error
C14_Witness ==
    \E w \in Workers :
        /\ pc[w] = "done" /\ req[w].kind = "save-result"
        /\ resp[w] = [code |-> 500, detail |-> <<"str", <<"OSError">>>>]
        /\ WithRecord(scan_history) # {}
        /\ saved # {}

\* the sequence h without its i-th element
Without(h, i) == SubSeq(h, 1, i - 1) \o SubSeq(h, i + 1, Len(h))

\* C15: a background save is attempted once: the step that attempts it takes
\* it off the tasks whether the write succeeded or failed, nothing else
\* writes a record of a scan, and the attempt leaves the state, the Session,
\* HistoryIndex, and every handler and its response as they were.
C15_BackgroundSaveOnce ==
    [][/\ (pending' # pending /\ Len(pending') <= Len(pending)) =>
            /\ \E i \in 1..Len(pending) : pending' = Without(pending, i)
            /\ UNCHANGED <<shared, app_lock, pc, req, resp, bg>>
       /\ records' # records =>
            /\ \E i \in 1..Len(pending) :
                 /\ pending' = Without(pending, i)
                 /\ \E s \in DOMAIN records :
                      /\ records'[s] \in {JsonDump(pending[i]), EmptyFile}
                      /\ \A o \in DOMAIN records \ {s} : records'[o] = records[o]
            /\ UNCHANGED <<shared, app_lock, pc, req, resp, bg>>
      ]_vars

\* C15 witness: the save of a stopped scan failed after it had opened the
\* file; no task is left, and the scan is in the history
C15_Witness ==
    /\ pending = <<>>
    /\ \E s \in DOMAIN records : records[s] = EmptyFile
    /\ scan_history # <<>>
    /\ \A w \in Workers : pc[w] = "idle"

\* the workers inside a `with app_lock:` block
InCritical == { w \in Workers : pc[w] = "locked" }

\* C16: the shared state changes only in a step of the one handler that
\* holds the lock, which runs its critical section and releases the lock in
\* that step; a handler is inside a critical section exactly when it holds
\* the lock, at most one is, and the lock goes from one holder to the next
\* only by being released.  The critical sections therefore take effect one
\* at a time, in the order in which the lock was held.
C16_MutationsUnderLock ==
    /\ [](\A w \in Workers : pc[w] = "locked" <=> app_lock = Held(w))
    /\ [](Cardinality(InCritical) <= 1)
    /\ [][/\ shared' # shared =>
               \E w \in Workers :
                   /\ app_lock = Held(w) /\ pc[w] = "locked"
                   /\ app_lock' = None /\ pc'[w] = "done"
                   /\ \A v \in Workers \ {w} : pc'[v] = pc[v]
          /\ (app_lock # None /\ app_lock' # app_lock) => app_lock' = None
         ]_vars

\* C16 witness: a frame and a result are in, a scan is on; one handler is in
\* its critical section while a save-result waits for the lock
C16_Witness ==
    \E w, v \in Workers :
        /\ pc[w] = "locked" /\ req[w].kind = "action"
        /\ pc[v] = "waiting"
        /\ latest_frame_jpeg # None
        /\ current_scan_data # None
        /\ scan_history # <<>>

\* worker w runs a handler that reads the shared state and changes nothing
ReadStep(w) ==
    /\ pc[w] \in {"locked", "running"} /\ pc'[w] = "done"
    /\ req[w].kind \in {"status", "latest-frame", "history", "health"}

\* C17 (as claimed): every handler that reads the shared state, GET /status,
\* GET /latest-frame, GET /history and GET /health, reads it while it holds
\* the lock.
C17_ReadsUnderLock ==
    [][\A w \in Workers : ReadStep(w) => app_lock = Held(w)]_vars

\* C18: the lock is not held across record I/O: the handler that writes a
\* record (save-result) or reads one (GET /records) does not hold the lock
\* in that step, no step changes a record and runs a critical section, the
\* background save takes no lock, and a background save is handed over to
\* run only by a stop-scan handler that has released the lock.
C18_NoLockAcrossIO ==
    /\ [](\A w \in Workers : bg[w] # <<>> => pc[w] = "done" /\ app_lock # Held(w))
    /\ [][/\ \A w \in Workers :
               (SaveWriteStep(w) \/ RecordStep(w)) =>
                   /\ app_lock # Held(w)
                   /\ app_lock' = app_lock
          /\ records' # records =>
               /\ app_lock' = app_lock
               /\ \A w \in Workers : pc[w] = "locked" => pc'[w] = "locked"
          /\ Len(pending') < Len(pending) =>
               /\ app_lock' = app_lock
               /\ pc' = pc
          /\ Len(pending') > Len(pending) =>
               \E w \in Workers :
                   /\ pc[w] = "done" /\ pc'[w] = "idle"
                   /\ req[w].kind = "action" /\ req[w].action = "stop-scan"
                   /\ app_lock # Held(w)
         ]_vars

\* C18 witness: GET /records has read the record the background save of a
\* stopped scan wrote, while another handler is in its critical section
C18_Witness ==
    \E w, v \in Workers :
        /\ pc[w] = "done" /\ req[w].kind = "record"
        /\ resp[w].code = 200
        /\ "frames" \in DOMAIN resp[w].body
        /\ pc[v] = "locked"

\* C19: HistoryIndex is append-only: in every step the old history is a
\* prefix of the new one; it grows by one entry at a time, and only in the
\* critical section of a stop-scan that finds a Session, by that Session, or
\* of a save-result that is answered "saved"; GET /history leaves it alone.
C19_HistoryAppendOnly ==
    [][/\ Len(scan_history') >= Len(scan_history)
       /\ SubSeq(scan_history', 1, Len(scan_history)) = scan_history
       /\ scan_history' # scan_history =>
            /\ Len(scan_history') = Len(scan_history) + 1
            /\ \E w \in Workers :
                 \/ /\ ActionStep(w, "stop-scan")
                    /\ current_scan_data # None
                    /\ scan_history'[Len(scan_history')] = current_scan_data
                 \/ /\ SaveAppendStep(w)
                    /\ resp'[w].code = 200 /\ resp'[w].body.status = "saved"
       /\ \A w \in Workers : HistoryStep(w) => scan_history' = scan_history
      ]_vars

\* C19 witness: GET /history has returned a saved result followed by a
\* stopped scan
C19_Witness ==
    \E w \in Workers :
        /\ pc[w] = "done" /\ req[w].kind = "history"
        /\ resp[w].body.count = 2
        /\ WithRecord(scan_history) = {1}
        /\ resp[w].body.scans = scan_history

\* the label of a state: "State: " followed by its name
StateLabel(state) ==
    CASE state = "IDLE" -> "State: IDLE"
      [] state = "BLANKING_COUNTDOWN" -> "State: BLANKING_COUNTDOWN"
      [] state = "SCANNING" -> "State: SCANNING"

\* C20: in every reachable state, IDLE comes with no Session and
\* BLANKING_COUNTDOWN with a Session, and the label is "State: " followed by
\* the name of the state.
C20_StateSessionLabel ==
    /\ app_state \in {"IDLE", "BLANKING_COUNTDOWN", "SCANNING"}
    /\ app_state = "IDLE" => current_scan_data = None
    /\ app_state = "BLANKING_COUNTDOWN" => current_scan_data # None
    /\ ui_state_text = StateLabel(app_state)

\* C20 witness: a scan was stopped and the next one is in its countdown,
\* after requests that were refused or found no Session
C20_Witness ==
    /\ app_state = "BLANKING_COUNTDOWN"
    /\ ui_state_text = "State: BLANKING_COUNTDOWN"
    /\ current_scan_data # None
    /\ scan_history # <<>>
    /\ \E w \in Workers : ActionDone(w, "reset")

====
